---- MODULE Spec2Model ----
(***************************************************************************)
(* Model of the ContactPro backend: the LinkedIn scrape handler            *)
(* (routes/linkedinScraper.js, POST /scrape-linkedin), the profile         *)
(* normalizer (transformLinkedInDataWithPhone) and the dashboard ledger    *)
(* routes (GET /, POST /, PATCH /activity).                                *)
(*                                                                         *)
(* JavaScript strings that the code inspects (trim, includes, ||) are      *)
(* modelled as sequences of one-character strings, so that trimming and    *)
(* substring search are computed, not assumed.  Literal messages and       *)
(* status words that the code only compares or copies are TLA+ strings.    *)
(***************************************************************************)
EXTENDS Integers, Sequences, FiniteSets, TLC

(***************************************************************************)
(* Bounds of the model.                                                    *)
(***************************************************************************)
\* longest profilesData array a request carries
MaxProfiles == 2
\* times the scraping service answers RUNNING before it settles (SpecScrape)
MaxRunningPolls == 1
\* profiles in the profile store
MaxStored == 1
\* latest reading of the server clock
MaxClock == 1
\* activity appends in a run with the other ledger operations (SpecDashboard)
MaxAppends == 2
\* activity appends in a run of appends alone (SpecActivity)
MaxAppendsLong == 25

(***************************************************************************)
(* Strings.                                                                *)
(***************************************************************************)
IsSpace(c) == c = " "

RECURSIVE TrimLeft(_)
TrimLeft(s) ==
    IF s # <<>> /\ IsSpace(Head(s)) THEN TrimLeft(Tail(s)) ELSE s

RECURSIVE TrimRight(_)
TrimRight(s) ==
    IF s # <<>> /\ IsSpace(s[Len(s)])
    THEN TrimRight(SubSeq(s, 1, Len(s) - 1))
    ELSE s

\* String.prototype.trim
Trim(s) == TrimRight(TrimLeft(s))

\* String.prototype.includes
Includes(s, sub) ==
    \E k \in 0..(Len(s) - Len(sub)) : SubSeq(s, k + 1, k + Len(sub)) = sub

LowerOf ==
    [c \in {"A","B","C","D","E","F","G","H","I","J","K","L","M",
            "N","O","P","Q","R","S","T","U","V","W","X","Y","Z"} |->
        CASE c = "A" -> "a" [] c = "B" -> "b" [] c = "C" -> "c" [] c = "D" -> "d"
          [] c = "E" -> "e" [] c = "F" -> "f" [] c = "G" -> "g" [] c = "H" -> "h"
          [] c = "I" -> "i" [] c = "J" -> "j" [] c = "K" -> "k" [] c = "L" -> "l"
          [] c = "M" -> "m" [] c = "N" -> "n" [] c = "O" -> "o" [] c = "P" -> "p"
          [] c = "Q" -> "q" [] c = "R" -> "r" [] c = "S" -> "s" [] c = "T" -> "t"
          [] c = "U" -> "u" [] c = "V" -> "v" [] c = "W" -> "w" [] c = "X" -> "x"
          [] c = "Y" -> "y" [] c = "Z" -> "z"]

\* String.prototype.toLowerCase
ToLowerCase(s) ==
    [k \in 1..Len(s) |-> IF s[k] \in DOMAIN LowerOf THEN LowerOf[s[k]] ELSE s[k]]

\* a || b on strings: the empty string (and an absent field, which every use
\* below coalesces with ||) is falsy
Or(a, b) == IF a # <<>> THEN a ELSE b

(***************************************************************************)
(* Literals of the scrape handler.                                         *)
(***************************************************************************)
LinkedInCom == <<"l","i","n","k","e","d","i","n",".","c","o","m">>
InPath  == LinkedInCom \o <<"/","i","n","/">>
PubPath == LinkedInCom \o <<"/","p","u","b","/">>

maxAttempts == 60
PointsPerProfile == 10

MsgProfilesRequired == "ProfilesData array is required and cannot be empty"
MsgUserRequired     == "User ID is required"
MsgNoValidUrls      == "No valid LinkedIn URLs found"
MsgNotConfigured    == "LinkedIn scraping service not configured"
MsgInternal         == "Internal server error"
MsgServiceFailed    == "LinkedIn scraping service failed"
MsgNoData           == "No profile data received"
MsgInsufficient     == "Insufficient profile data - profile must have a name and either experience, company, or job title"
MsgSaveFailed       == "Failed to save contact"
MsgFetchFailed      == "fetch failed"
MsgTypeError        == "TypeError"

(***************************************************************************)
(* Request bodies.  A JSON value the handler type-tests is tagged.         *)
(***************************************************************************)
Undefined == [t |-> "undefined"]
Str(s)    == [t |-> "string", s |-> s]
Num(n)    == [t |-> "number", n |-> n]
Arr(a)    == [t |-> "array", a |-> a]

\* truthiness of a tagged value
Truthy(v) ==
    CASE v.t = "undefined" -> FALSE
      [] v.t = "string"    -> v.s # <<>>
      [] v.t = "number"    -> v.n # 0
      [] v.t = "array"     -> TRUE

UrlIn   == InPath \o <<"a","l">>
UrlPub  == <<" ">> \o PubPath \o <<"b","o">> \o <<" ">>
UrlBad  == <<"x",".","i","o","/","i","n","/","a","l">>
Phone1  == <<"5","5","5">>
Mail1   == <<"a","@","x">>
Link1   == <<"x",".","i","o">>

\* profile descriptors a client can send: url is a string, absent, or (a
\* malformed body) not a string; phone and email are strings ("" when absent)
DIn    == [url |-> Str(UrlIn),  phone |-> <<>>,   email |-> <<>>,  extraLinks |-> Undefined]
DPub   == [url |-> Str(UrlPub), phone |-> <<" ">> \o Phone1, email |-> Mail1,
           extraLinks |-> Arr(<<Link1, <<>> >>)]
DBad   == [url |-> Str(UrlBad), phone |-> Phone1, email |-> <<>>,  extraLinks |-> Undefined]
DNoUrl == [url |-> Undefined,   phone |-> <<>>,   email |-> <<>>,  extraLinks |-> Undefined]
DNum   == [url |-> Num(5),      phone |-> <<>>,   email |-> <<>>,  extraLinks |-> Undefined]

Descriptors == {DIn, DPub, DBad, DNoUrl, DNum}

SeqsUpTo(S, n) == UNION {[1..k -> S] : k \in 0..n}

UserIds == {"u1"}

\* req.body: profilesData is absent, a non-array, or an array of descriptors;
\* userId is a string, "" standing for an absent one
Requests ==
    [profilesData : {Undefined, Str(UrlIn)} \cup {Arr(a) : a \in SeqsUpTo(Descriptors, MaxProfiles)},
     userId : UserIds \cup {""}]

(***************************************************************************)
(* Scraped payloads.  A payload field the normalizer reads through ||      *)
(* is a string, "" standing for an absent one; startYear 0 stands for a    *)
(* position without a start year.  Fields that only feed the flattened     *)
(* text, skills, education, industry, location, avatar and companySize    *)
(* outputs are left out: no handler decision reads them.                   *)
(***************************************************************************)
CurrentYear == 2024

NameAl   == <<"A","l">>
NameBo   == <<"B","o">>
TitleSr  == <<"S","e","n","i","o","r"," ","D","e","v">>
TitleEng == <<"E","n","g">>
Acme     == <<"A","c","m","e">>
Phone2   == <<"7","7","7">>
Mail2    == <<"b","@","y">>

NoProfileData == [t |-> "null"]
\* an entry the normalizer cannot read (positions that is not a list)
Malformed     == [t |-> "malformed"]

Blank ==
    [t |-> "profile", firstName |-> <<>>, lastName |-> <<>>, fullName |-> <<>>,
     jobTitle |-> <<>>, occupation |-> <<>>, companyName |-> <<>>,
     positions |-> <<>>, phone |-> <<>>, email |-> <<>>,
     inputUrl |-> <<>>, url |-> <<>>, linkedinUrl |-> <<>>]

Position(title, company, year) == [title |-> title, companyName |-> company, startYear |-> year]

PNameOnly    == [Blank EXCEPT !.firstName = NameAl, !.phone = Phone2, !.email = Mail2]
PNameExp     == [Blank EXCEPT !.fullName = NameBo,
                              !.positions = << Position(<<>>, <<>>, 2020), Position(<<>>, <<>>, 2018) >>]
PNameCompany == [Blank EXCEPT !.lastName = NameBo, !.companyName = Acme,
                              !.phone = Phone2, !.email = Mail2]
PNameTitle   == [Blank EXCEPT !.firstName = NameAl, !.lastName = NameBo, !.occupation = TitleSr,
                              !.inputUrl = UrlIn]
PNoName      == [Blank EXCEPT !.fullName = <<>>, !.jobTitle = TitleEng,
                              !.positions = << Position(TitleSr, Acme, 2023) >>]

Payloads == {NoProfileData, Malformed, PNameOnly, PNameExp, PNameCompany, PNameTitle,
             PNoName}

\* job titles a payload can carry, and the years a first position can start
\* in (0: no start year; a year after CurrentYear: a start in the future)
Titles ==
    {<<"S","e","n","i","o","r">>,
     TitleSr,
     <<"S","e","n","i","o","r"," ","M","a","n","a","g","e","r">>,
     <<"S","e","n","i","o","r"," ","V","P">>,
     <<"S","e","n","i","o","r"," ","D","o","c","t","o","r">>,
     <<"J","u","n","i","o","r"," ","t","o"," ","S","e","n","i","o","r">>,
     <<"s","e","n","i","o","r">>,
     TitleEng}

StartYearChoices == {0, 2010, 2022, 2023, 2024, 2030}

\* payloads with a name, the title in one of its three places and one position
TitledPayloads ==
    {[Blank EXCEPT !.firstName = NameAl, !.jobTitle = title,
                   !.positions = << Position(<<>>, <<>>, year) >>] :
         title \in Titles, year \in StartYearChoices}
    \cup {[Blank EXCEPT !.firstName = NameAl, !.occupation = title,
                        !.positions = << Position(<<>>, <<>>, year) >>] :
              title \in Titles, year \in StartYearChoices}
    \cup {[Blank EXCEPT !.firstName = NameAl,
                        !.positions = << Position(title, <<>>, year) >>] :
              title \in Titles, year \in StartYearChoices}

(***************************************************************************)
(* transformLinkedInDataWithPhone                                          *)
(***************************************************************************)
StartYears(positions) ==
    {positions[k].startYear : k \in {j \in 1..Len(positions) : positions[j].startYear # 0}}

Min(S) == CHOOSE x \in S : \A y \in S : x <= y
Max0(n) == IF n > 0 THEN n ELSE 0

ExperienceYears(positions) ==
    IF positions # <<>> /\ StartYears(positions) # {}
    THEN Max0(CurrentYear - Min(StartYears(positions)))
    ELSE 0

FirstPositionTitle(p)   == IF p.positions # <<>> THEN p.positions[1].title ELSE <<>>
FirstPositionCompany(p) == IF p.positions # <<>> THEN p.positions[1].companyName ELSE <<>>

JobTitle(p) == Or(p.jobTitle, Or(p.occupation, FirstPositionTitle(p)))

\* a rule order that tests junior / short experience before the senior titles
SeniorityLevelExperienceFirst(jobTitle, experienceYears) ==
    LET t == ToLowerCase(jobTitle) IN
    IF Includes(t, <<"j","u","n","i","o","r">>) \/ experienceYears < 2
    THEN "Entry-level"
    ELSE IF Includes(t, <<"s","e","n","i","o","r">>) THEN "Senior"
    ELSE "Mid-level"

SeniorityLevel(jobTitle, experienceYears) ==
    LET t == ToLowerCase(jobTitle) IN
    IF Includes(t, <<"c","e","o">>) \/ Includes(t, <<"c","t","o">>)
       \/ Includes(t, <<"c","f","o">>) \/ Includes(t, <<"c","h","i","e","f">>)
    THEN "C-Level"
    ELSE IF Includes(t, <<"v","p">>)
            \/ Includes(t, <<"v","i","c","e"," ","p","r","e","s","i","d","e","n","t">>)
    THEN "VP"
    ELSE IF Includes(t, <<"d","i","r","e","c","t","o","r">>)
            \/ Includes(t, <<"m","a","n","a","g","e","r">>)
    THEN "Director"
    ELSE IF Includes(t, <<"s","e","n","i","o","r">>) \/ Includes(t, <<"l","e","a","d">>)
            \/ Includes(t, <<"p","r","i","n","c","i","p","a","l">>)
    THEN "Senior"
    ELSE IF Includes(t, <<"j","u","n","i","o","r">>) \/ experienceYears < 2
    THEN "Entry-level"
    ELSE "Mid-level"

\* the contact record built from payload p for the validated input `input`
transformLinkedInDataWithPhone(p, userId, input) ==
    LET experienceYears == ExperienceYears(p.positions)
        jobTitle == JobTitle(p)
    IN  [name |-> Or(Trim(p.firstName \o <<" ">> \o p.lastName), p.fullName),
         jobTitle |-> jobTitle,
         company |-> Or(p.companyName, FirstPositionCompany(p)),
         experience |-> experienceYears,
         seniorityLevel |-> SeniorityLevel(jobTitle, experienceYears),
         email |-> Or(input.email, p.email),
         phone |-> Or(input.phone, p.phone),
         uploadedBy |-> userId,
         linkedinUrl |-> Or(p.inputUrl, Or(p.url, Or(p.linkedinUrl, input.url))),
         extraLinks |-> input.extraLinks]

\* a sufficiency test that takes experience >= 0 for having experience
hasMinimumDataAnyExperience(contactData) ==
    contactData.name # <<>>
    /\ (contactData.experience >= 0 \/ contactData.company # <<>> \/ contactData.jobTitle # <<>>)

\* the handler's sufficiency test on a normalized record
hasMinimumData(contactData) ==
    contactData.name # <<>>
    /\ (contactData.experience > 0 \/ contactData.company # <<>> \/ contactData.jobTitle # <<>>)

(***************************************************************************)
(* State.                                                                  *)
(***************************************************************************)
VARIABLES
    \* --- POST /scrape-linkedin: one request being handled
    pc,             \* where the handler is: idle, awaitRun, polling, awaitItems,
                    \* process, awaitSave, respond, done
    apiToken,       \* whether process.env.APIFY_API_KEY is set
    req,            \* req.body
    validProfiles,  \* the filtered, trimmed descriptors
    results,        \* the results object
    runStatus,      \* last status read from the scraping service
    attempts,       \* status polls done
    scrapedData,    \* the fetched result set
    idx,            \* position of the per-item loop (1-based)
    contactData,    \* the normalized record of the item being saved
    response,       \* what res.json / res.status(..).json sent
    calls,          \* outbound requests issued so far, per endpoint
    submitted,      \* the urls field of the job-submission body
    saveLog,        \* per processed item: the persistence response, or "none"
    ext             \* how the awaited requests of the external stage ended

scrapeVars ==
    <<pc, apiToken, req, validProfiles, results, runStatus, attempts, scrapedData,
      idx, contactData, response, calls, submitted, saveLog, ext>>

\* --- the Dashboard and Profile collections and the dashboard routes
VARIABLES
    users,          \* ids of the registered users
    dashboards,     \* the Dashboard collection, in insertion order
    profiles,       \* the Profile collection, in insertion order
    clock,          \* what new Date() reads
    dashResponse,   \* last response of a dashboard route
    nAppends,       \* activity messages appended so far
    runBase,        \* recentActivity as it was before the current run of appends
    runMsgs         \* the messages appended since the log was last written otherwise

dashVars == <<users, dashboards, profiles, clock, dashResponse, nAppends, runBase, runMsgs>>

\* --- the Profile library, the auth middleware and concurrent requests
VARIABLES
    profileOp,      \* the last profile save or duplicate check and how it ended
    auth,           \* what authMiddleware did with the last request
    inflight,       \* the dashboard requests in progress, each at an await
    reset           \* the last forgot-password request and its response

auxVars == <<profileOp, auth, inflight, reset>>

vars == <<scrapeVars, dashVars, auxVars>>

NoRequest  == [profilesData |-> Undefined, userId |-> ""]
NoResults  == [total |-> 0, processed |-> 0, successful |-> 0, failed |-> 0, results |-> <<>>]
NoContact  == [t |-> "none"]
NoResponse == [status |-> 0]
NoCalls    == [submit |-> 0, status |-> 0, fetch |-> 0, save |-> 0]
NoExternal == [run |-> "none", poll |-> "none", items |-> "none"]

RunStatuses == {"READY", "RUNNING", "SUCCEEDED", "FAILED", "ABORTED"}
\* how an awaited fetch can end: an ok response, a non-ok response, or a
\* rejection / unreadable body
Outcomes == {"ok", "notok", "throws"}

InitScrape ==
    /\ pc = "idle"
    /\ apiToken \in BOOLEAN
    /\ req = NoRequest
    /\ validProfiles = <<>>
    /\ results = NoResults
    /\ runStatus = "RUNNING"
    /\ attempts = 0
    /\ scrapedData = <<>>
    /\ idx = 1
    /\ contactData = NoContact
    /\ response = NoResponse
    /\ calls = NoCalls
    /\ submitted = <<>>
    /\ saveLog = <<>>
    /\ ext = NoExternal

(***************************************************************************)
(* POST /scrape-linkedin                                                   *)
(***************************************************************************)
ErrorResponse(status, msg) == [status |-> status, error |-> msg]

\* the filter predicate of the validation step; on a truthy url that is not
\* a string, url.includes is not a function and the filter throws
IsLinkedInProfile(profile) ==
    /\ Truthy(profile.url)
    /\ (Includes(profile.url.s, InPath) \/ Includes(profile.url.s, PubPath))

FilterThrows(profilesData) ==
    \E k \in 1..Len(profilesData) :
        Truthy(profilesData[k].url) /\ profilesData[k].url.t # "string"

FilterBoolean(a) == SelectSeq(a, LAMBDA x : x # <<>>)

Structure(profile) ==
    [url |-> Trim(profile.url.s),
     phone |-> Trim(profile.phone),
     email |-> Trim(profile.email),
     extraLinks |-> IF profile.extraLinks.t = "array"
                    THEN FilterBoolean(profile.extraLinks.a) ELSE <<>>]

ValidProfiles(profilesData) ==
    LET kept == SelectSeq(profilesData, IsLinkedInProfile)
    IN  [k \in 1..Len(kept) |-> Structure(kept[k])]

\* a submission that sends the validated descriptors whole
UrlsWithContacts(valid) == valid

\* the urls field of the job submission: one { url } object per valid profile
Urls(valid) == [k \in 1..Len(valid) |-> [url |-> valid[k].url]]

FailedEntry(url, msg) == [url |-> url, status |-> "failed", error |-> msg]

SuccessEntry(url, c) ==
    [url |-> url, status |-> "success",
     data |-> [name |-> c.name, jobTitle |-> c.jobTitle, company |-> c.company, phone |-> c.phone]]

\* a catch block that records the failure once for the batch, not per profile
MarkAllFailedOnce(r, valid) ==
    [r EXCEPT !.processed = @ + 1,
              !.failed = @ + 1,
              !.results = Append(@, FailedEntry(valid[1].url, MsgServiceFailed))]

\* catch (scrapingError): every valid profile is marked failed
MarkAllFailed(r, valid) ==
    [r EXCEPT !.processed = @ + Len(valid),
              !.failed = @ + Len(valid),
              !.results = @ \o [k \in 1..Len(valid) |-> FailedEntry(valid[k].url, MsgServiceFailed)]]

PointsEarned(r) == r.successful * PointsPerProfile

SuccessResponse(r) ==
    [status |-> 200, success |-> TRUE, results |-> r, pointsEarned |-> PointsEarned(r)]

\* the external stage threw: the catch block runs, then the handler responds
ScrapingError ==
    /\ results' = MarkAllFailed(results, validProfiles)
    /\ pc' = "respond"

\* the request arrives: validation, then the job submission is issued
ReceiveRequest(body) ==
    /\ pc = "idle"
    /\ UNCHANGED <<dashVars, auxVars>>
    /\ req' = body
    /\ UNCHANGED <<apiToken, runStatus, attempts, scrapedData, idx, contactData, saveLog, ext>>
    /\ LET pd == body.profilesData IN
       IF ~Truthy(pd) \/ pd.t # "array" \/ pd.a = <<>>
       THEN /\ response' = ErrorResponse(400, MsgProfilesRequired)
            /\ pc' = "done"
            /\ UNCHANGED <<validProfiles, results, calls, submitted>>
       ELSE IF body.userId = ""
       THEN /\ response' = ErrorResponse(400, MsgUserRequired)
            /\ pc' = "done"
            /\ UNCHANGED <<validProfiles, results, calls, submitted>>
       ELSE IF FilterThrows(pd.a)
       THEN /\ response' = ErrorResponse(500, MsgInternal)
            /\ pc' = "done"
            /\ UNCHANGED <<validProfiles, results, calls, submitted>>
       ELSE IF ValidProfiles(pd.a) = <<>>
       THEN /\ response' = ErrorResponse(400, MsgNoValidUrls)
            /\ pc' = "done"
            /\ validProfiles' = <<>>
            /\ UNCHANGED <<results, calls, submitted>>
       ELSE IF ~apiToken
       THEN /\ response' = ErrorResponse(500, MsgNotConfigured)
            /\ pc' = "done"
            /\ validProfiles' = ValidProfiles(pd.a)
            /\ UNCHANGED <<results, calls, submitted>>
       ELSE /\ validProfiles' = ValidProfiles(pd.a)
            /\ results' = [NoResults EXCEPT !.total = Len(ValidProfiles(pd.a))]
            /\ submitted' = Urls(ValidProfiles(pd.a))
            /\ calls' = [calls EXCEPT !.submit = @ + 1]
            /\ pc' = "awaitRun"
            /\ UNCHANGED response

\* the job submission returns
RunResponse(outcome) ==
    /\ pc = "awaitRun"
    /\ UNCHANGED <<dashVars, auxVars>>
    /\ UNCHANGED <<apiToken, req, validProfiles, scrapedData, idx, contactData,
                   response, calls, submitted, saveLog>>
    /\ ext' = [ext EXCEPT !.run = outcome]
    /\ IF outcome = "ok"
       THEN /\ runStatus' = "RUNNING"
            /\ attempts' = 0
            /\ pc' = "polling"
            /\ UNCHANGED results
       ELSE /\ ScrapingError
            /\ UNCHANGED <<runStatus, attempts>>

\* a test after the loop that only rejects a FAILED run
NotFailed(status) == status # "FAILED"

\* the test after the loop: only SUCCEEDED lets the handler go on
ScrapeSucceeded(status) == status = "SUCCEEDED"

\* one turn of the polling loop: wait, ask for the status, read it; when the
\* loop ends with SUCCEEDED the result set is requested
PollStatus(outcome, status) ==
    /\ pc = "polling"
    /\ UNCHANGED <<dashVars, auxVars>>
    /\ runStatus = "RUNNING" /\ attempts < maxAttempts
    /\ UNCHANGED <<apiToken, req, validProfiles, scrapedData, idx, contactData,
                   response, submitted, saveLog>>
    /\ ext' = [ext EXCEPT !.poll = outcome]
    /\ IF outcome # "ok"
       THEN /\ calls' = [calls EXCEPT !.status = @ + 1]
            /\ ScrapingError
            /\ UNCHANGED <<runStatus, attempts>>
       ELSE /\ runStatus' = status
            /\ attempts' = attempts + 1
            /\ IF status = "RUNNING" /\ attempts + 1 < maxAttempts
               THEN /\ calls' = [calls EXCEPT !.status = @ + 1]
                    /\ pc' = "polling"
                    /\ UNCHANGED results
               ELSE IF ~ScrapeSucceeded(status)
               THEN /\ calls' = [calls EXCEPT !.status = @ + 1]
                    /\ ScrapingError
               ELSE /\ calls' = [calls EXCEPT !.status = @ + 1, !.fetch = @ + 1]
                    /\ pc' = "awaitItems"
                    /\ UNCHANGED results

\* the result set returns
ItemsResponse(outcome, data) ==
    /\ pc = "awaitItems"
    /\ UNCHANGED <<dashVars, auxVars>>
    /\ UNCHANGED <<apiToken, req, validProfiles, runStatus, attempts, contactData,
                   response, calls, submitted, saveLog>>
    /\ ext' = [ext EXCEPT !.items = outcome]
    /\ IF outcome = "ok"
       THEN /\ scrapedData' = data
            /\ idx' = 1
            /\ pc' = "process"
            /\ UNCHANGED results
       ELSE /\ ScrapingError
            /\ UNCHANGED <<scrapedData, idx>>

ProfileDataAt(data, i) == IF i <= Len(data) THEN data[i] ELSE NoProfileData

\* a per-item catch that lists the failure without counting it
ItemFailedUncounted(msg) ==
    /\ results' = [results EXCEPT !.processed = @ + 1,
                                  !.results = Append(@, FailedEntry(validProfiles[idx].url, msg))]
    /\ saveLog' = Append(saveLog, "none")
    /\ idx' = idx + 1
    /\ pc' = IF idx + 1 > Len(validProfiles) THEN "respond" ELSE "process"
    /\ UNCHANGED <<contactData, calls>>

\* a per-item catch that gives up on the rest of the batch
ItemFailedAborts(msg) ==
    /\ results' = [results EXCEPT !.processed = @ + 1,
                                  !.failed = @ + 1,
                                  !.results = Append(@, FailedEntry(validProfiles[idx].url, msg))]
    /\ saveLog' = Append(saveLog, "none")
    /\ idx' = idx + 1
    /\ pc' = "respond"
    /\ UNCHANGED <<contactData, calls>>

\* the item at idx failed: catch (error) of the per-item try
ItemFailed(msg) ==
    /\ results' = [results EXCEPT !.processed = @ + 1,
                                  !.failed = @ + 1,
                                  !.results = Append(@, FailedEntry(validProfiles[idx].url, msg))]
    /\ saveLog' = Append(saveLog, "none")
    /\ idx' = idx + 1
    /\ pc' = IF idx + 1 > Len(validProfiles) THEN "respond" ELSE "process"
    /\ UNCHANGED <<contactData, calls>>

\* one iteration of the per-item loop, up to the persistence request
StartItem ==
    /\ pc = "process"
    /\ UNCHANGED <<dashVars, auxVars>>
    /\ idx <= Len(validProfiles)
    /\ UNCHANGED <<apiToken, req, validProfiles, runStatus, attempts, scrapedData,
                   response, submitted, ext>>
    /\ LET profileInput == validProfiles[idx]
           profileData == ProfileDataAt(scrapedData, idx)
       IN  IF profileData.t = "null"
           THEN ItemFailed(MsgNoData)
           ELSE IF profileData.t = "malformed"
           THEN ItemFailed(MsgTypeError)
           ELSE IF ~hasMinimumData(transformLinkedInDataWithPhone(profileData, req.userId, profileInput))
           THEN ItemFailed(MsgInsufficient)
           ELSE /\ contactData' = transformLinkedInDataWithPhone(profileData, req.userId, profileInput)
                /\ results' = [results EXCEPT !.processed = @ + 1]
                /\ calls' = [calls EXCEPT !.save = @ + 1]
                /\ pc' = "awaitSave"
                /\ UNCHANGED <<idx, saveLog>>

\* the persistence request returns
SaveResponse(outcome) ==
    /\ pc = "awaitSave"
    /\ UNCHANGED <<dashVars, auxVars>>
    /\ UNCHANGED <<apiToken, req, validProfiles, runStatus, attempts, scrapedData,
                   response, calls, submitted, ext>>
    /\ results' =
         IF outcome = "ok"
         THEN [results EXCEPT !.successful = @ + 1,
                              !.results = Append(@, SuccessEntry(validProfiles[idx].url, contactData))]
         ELSE [results EXCEPT !.failed = @ + 1,
                              !.results = Append(@, FailedEntry(validProfiles[idx].url,
                                   IF outcome = "notok" THEN MsgSaveFailed ELSE MsgFetchFailed))]
    /\ saveLog' = Append(saveLog, outcome)
    /\ contactData' = NoContact
    /\ idx' = idx + 1
    /\ pc' = IF idx + 1 > Len(validProfiles) THEN "respond" ELSE "process"

\* a handler that applies the reward to the user's ledger before it responds
RespondAndCredit ==
    /\ pc = "respond"
    /\ response' = SuccessResponse(results)
    /\ pc' = "done"
    /\ dashboards' =
         [k \in 1..Len(dashboards) |->
            IF dashboards[k].userId = req.userId
            THEN [dashboards[k] EXCEPT !.availablePoints = @ + PointsEarned(results)]
            ELSE dashboards[k]]
    /\ UNCHANGED <<users, profiles, clock, dashResponse, nAppends, runBase, runMsgs>>
    /\ UNCHANGED <<apiToken, req, validProfiles, results, runStatus, attempts, scrapedData,
                   idx, contactData, calls, submitted, saveLog, ext>>
    /\ UNCHANGED auxVars

\* the points the handler would add are only logged; the results are sent
Respond ==
    /\ pc = "respond"
    /\ UNCHANGED <<dashVars, auxVars>>
    /\ response' = SuccessResponse(results)
    /\ pc' = "done"
    /\ UNCHANGED <<apiToken, req, validProfiles, results, runStatus, attempts, scrapedData,
                   idx, contactData, calls, submitted, saveLog, ext>>


(***************************************************************************)
(* Dashboard ledger: the Dashboard and Profile collections.                *)
(***************************************************************************)

SliceLimit == 20
InitialPoints == 100

\* ids of users that only upload profiles
OtherUsers == {"u2"}

WelcomeSignup == "Welcome to the platform! You started with 100 points."
WelcomeLogin  == "Welcome back! Dashboard created."
WelcomeGoogle == "Welcome! Signed up with Google."
WelcomeGet    == "Welcome! Dashboard created."

\* the fields Dashboard.create is given at signup and on the first GET; the
\* login and OAuth paths give only the points and the activity and leave
\* the rest to the schema defaults
NewDashboard(userId, welcome, now) ==
    [userId |-> userId,
     availablePoints |-> InitialPoints,
     totalContacts |-> 0,
     unlockedProfiles |-> 0,
     myUploads |-> 0,
     uploadedProfileIds |-> <<>>,
     unlockedContactIds |-> <<>>,
     recentActivity |-> <<welcome>>,
     updatedAt |-> now]

\* Dashboard.findOne({ userId }): position of the first match, 0 for none
FindOne(coll, userId) ==
    IF \E k \in 1..Len(coll) : coll[k].userId = userId
    THEN CHOOSE k \in 1..Len(coll) :
            coll[k].userId = userId /\ \A j \in 1..(k - 1) : coll[j].userId # userId
    ELSE 0

\* Profile.countDocuments({ uploadedBy: userId })
CountDocuments(coll, userId) ==
    Cardinality({k \in 1..Len(coll) : coll[k].uploadedBy = userId})

InitDash ==
    /\ users = {}
    /\ dashboards = <<>>
    /\ profiles = <<>>
    /\ clock = 0
    /\ dashResponse = NoResponse
    /\ nAppends = 0
    /\ runBase = <<>>
    /\ runMsgs = <<>>

\* find the user's dashboard, create it with `welcome` when there is none
EnsureDashboard(userId, welcome) ==
    IF FindOne(dashboards, userId) = 0
    THEN dashboards' = Append(dashboards, NewDashboard(userId, welcome, clock))
    ELSE UNCHANGED dashboards

\* POST /auth/signup: the user is created, then the dashboard
Signup(userId, created) ==
    /\ userId \notin users
    /\ FindOne(dashboards, userId) = 0
    /\ users' = users \cup {userId}
    /\ IF created
       THEN dashboards' = Append(dashboards, NewDashboard(userId, WelcomeSignup, clock))
       ELSE UNCHANGED dashboards
    /\ UNCHANGED <<profiles, clock, dashResponse, nAppends, runBase, runMsgs>>
    /\ UNCHANGED <<scrapeVars, auxVars>>

\* POST /auth/login, after the credentials were accepted
Login(userId) ==
    /\ userId \in users
    /\ EnsureDashboard(userId, WelcomeLogin)
    /\ UNCHANGED <<users, profiles, clock, dashResponse, nAppends, runBase, runMsgs>>
    /\ UNCHANGED <<scrapeVars, auxVars>>

\* GET /auth/google/callback, for the user the OAuth strategy found or made
GoogleCallback(userId) ==
    /\ users' = users \cup {userId}
    /\ EnsureDashboard(userId, WelcomeGoogle)
    /\ UNCHANGED <<profiles, clock, dashResponse, nAppends, runBase, runMsgs>>
    /\ UNCHANGED <<scrapeVars, auxVars>>

\* a profile is stored for uploader `by`
UploadProfile(by) ==
    /\ profiles' = Append(profiles, [uploadedBy |-> by])
    /\ UNCHANGED <<users, dashboards, clock, dashResponse, nAppends, runBase, runMsgs>>
    /\ UNCHANGED <<scrapeVars, auxVars>>

Tick ==
    /\ clock' = clock + 1
    /\ UNCHANGED <<users, dashboards, profiles, dashResponse, nAppends, runBase, runMsgs>>
    /\ UNCHANGED <<scrapeVars, auxVars>>

\* GET /api/dashboard: fetch or create, then reconcile the counters
Reconciled(d, actualUploads) ==
    IF d.myUploads # actualUploads \/ d.unlockedProfiles # Len(d.unlockedContactIds)
    THEN [d EXCEPT !.myUploads = actualUploads,
                   !.unlockedProfiles = Len(d.unlockedContactIds),
                   !.totalContacts = actualUploads]
    ELSE d

GetDashboard(userId, outcome) ==
    LET k == FindOne(dashboards, userId)
        found == IF k = 0
                 THEN Append(dashboards, NewDashboard(userId, WelcomeGet, clock))
                 ELSE dashboards
        at == IF k = 0 THEN Len(found) ELSE k
        d == Reconciled(found[at], CountDocuments(profiles, userId))
    IN  /\ IF outcome = "countThrows"
           THEN /\ dashboards' = found
                /\ dashResponse' = ErrorResponse(500, "count failed")
           ELSE IF outcome = "saveThrows" /\ d # found[at]
           THEN /\ dashboards' = found
                /\ dashResponse' = ErrorResponse(500, "save failed")
           ELSE /\ dashboards' = [found EXCEPT ![at] = d]
                /\ dashResponse' = [status |-> 200, dashboard |-> d]
        /\ UNCHANGED <<users, profiles, clock, nAppends, runBase, runMsgs>>
        /\ UNCHANGED <<scrapeVars, auxVars>>

\* POST /api/dashboard
DashboardFields ==
    {"availablePoints", "totalContacts", "unlockedProfiles", "myUploads",
     "unlockedContactIds", "uploadedProfileIds", "recentActivity"}

ListFields == {"unlockedContactIds", "uploadedProfileIds", "recentActivity"}

\* updateData with its undefined values removed: field -> value
UpdateData(body, now) ==
    LET raw == [f \in DashboardFields |->
                   IF f \in ListFields /\ ~Truthy(body[f]) THEN Arr(<<>>) ELSE body[f]]
        kept == {f \in DashboardFields : raw[f].t # "undefined"}
    IN  [f \in kept \cup {"updatedAt"} |->
            IF f = "updatedAt" THEN now
            ELSE IF raw[f].t = "array" THEN raw[f].a ELSE raw[f].n]

\* $set
SetFields(d, updateData) ==
    [f \in DOMAIN d |-> IF f \in DOMAIN updateData THEN updateData[f] ELSE d[f]]

\* the document an upsert inserts before the update is applied: the filter's
\* userId and the schema defaults
UpsertBase(userId, now) ==
    [NewDashboard(userId, "", now) EXCEPT !.recentActivity = <<>>]

UpdateDashboard(userId, body) ==
    LET k == FindOne(dashboards, userId)
        d == SetFields(IF k = 0 THEN UpsertBase(userId, clock) ELSE dashboards[k],
                       UpdateData(body, clock))
    IN  /\ dashboards' = IF k = 0 THEN Append(dashboards, d) ELSE [dashboards EXCEPT ![k] = d]
        /\ dashResponse' = [status |-> 200, dashboard |-> d]
        /\ runBase' = <<>>
        /\ runMsgs' = <<>>
        /\ UNCHANGED <<users, profiles, clock, nAppends>>
        /\ UNCHANGED <<scrapeVars, auxVars>>

\* $push with $each: [activity] and $slice: -20
SliceLast(a, n) == IF Len(a) > n THEN SubSeq(a, Len(a) - n + 1, Len(a)) ELSE a

\* a push with $slice: 20, which keeps the first entries, not the last
PushActivityKeepFirst(recentActivity, activity) ==
    SubSeq(Append(recentActivity, activity), 1,
           IF Len(recentActivity) + 1 > SliceLimit THEN SliceLimit ELSE Len(recentActivity) + 1)

PushActivity(recentActivity, activity) ==
    SliceLast(Append(recentActivity, activity), SliceLimit)

\* PATCH /api/dashboard/activity; activity "" stands for a missing one
AddActivity(userId, activity) ==
    /\ UNCHANGED <<scrapeVars, auxVars>>
    /\ IF activity = ""
       THEN /\ dashResponse' = ErrorResponse(400, "Activity message required")
            /\ UNCHANGED <<users, dashboards, profiles, clock, nAppends, runBase, runMsgs>>
       ELSE
         LET k == FindOne(dashboards, userId)
             old == IF k = 0 THEN UpsertBase(userId, clock) ELSE dashboards[k]
             d == [old EXCEPT !.recentActivity = PushActivity(@, activity),
                              !.updatedAt = clock]
         IN  /\ dashboards' = IF k = 0 THEN Append(dashboards, d)
                                       ELSE [dashboards EXCEPT ![k] = d]
             /\ dashResponse' = [status |-> 200, success |-> TRUE, activity |-> activity,
                                 totalActivities |-> Len(d.recentActivity)]
             /\ nAppends' = nAppends + 1
             /\ runBase' = IF runMsgs = <<>> THEN old.recentActivity ELSE runBase
             /\ runMsgs' = Append(runMsgs, activity)
             /\ UNCHANGED <<users, profiles, clock>>

(***************************************************************************)
(* Inputs of the dashboard routes.                                         *)
(***************************************************************************)
\* distinct activity messages: the n-th append of a run sends the n-th one
ActivityNames ==
    <<"a1", "a2", "a3", "a4", "a5", "a6", "a7", "a8", "a9", "a10",
      "a11", "a12", "a13", "a14", "a15", "a16", "a17", "a18", "a19", "a20",
      "a21", "a22", "a23", "a24", "a25", "a26", "a27", "a28", "a29", "a30">>

PostedNames ==
    <<"p1", "p2", "p3", "p4", "p5", "p6", "p7", "p8", "p9", "p10",
      "p11", "p12", "p13", "p14", "p15", "p16", "p17", "p18", "p19", "p20", "p21">>

NoFields == [f \in DashboardFields |-> Undefined]

BodyPoints == [NoFields EXCEPT !["availablePoints"] = Num(90)]
BodyTotal  == [NoFields EXCEPT !["totalContacts"] = Num(7)]
BodyCounts == [NoFields EXCEPT !["myUploads"] = Num(1), !["unlockedProfiles"] = Num(2),
                               !["unlockedContactIds"] = Arr(<<"c1", "c2">>)]
BodyAct21  == [NoFields EXCEPT !["recentActivity"] = Arr(PostedNames)]

Bodies == {BodyPoints, BodyTotal, BodyCounts, BodyAct21}

DbOutcomes == {"ok", "countThrows", "saveThrows"}

(***************************************************************************)
(* The Profile model and the LinkedIn helper.                              *)
(***************************************************************************)
MaxProfileDocs == 2

Null == [t |-> "null"]

\* the characters of [\w\-%.0-9]
SlugChars ==
    DOMAIN LowerOf \cup {LowerOf[c] : c \in DOMAIN LowerOf}
    \cup {"0","1","2","3","4","5","6","7","8","9","_","-","%","."}

\* the first position from `from` on whose character is in `stops` (when
\* `inside` is FALSE) or is not in `stops` (when it is TRUE); Len(s) + 1
\* when there is none
RunEnd(s, from, stops, inside) ==
    LET ends == {j \in from..Len(s) : (s[j] \in stops) # inside}
    IN  IF ends = {} THEN Len(s) + 1 ELSE CHOOSE j \in ends : \A i \in ends : j <= i

\* the Profile model's extractLinkedInId: /linkedin\.com\/in\/([^/?]+)/,
\* the leftmost match, lower-cased; Null when there is none
extractLinkedInId(url) ==
    LET starts == {k + Len(InPath) : k \in {j \in 1..(Len(url) - Len(InPath)) :
                       /\ SubSeq(url, j, j + Len(InPath) - 1) = InPath
                       /\ url[j + Len(InPath)] \notin {"/", "?"}}}
    IN  IF starts = {} THEN Null
        ELSE LET from == CHOOSE k \in starts : \A i \in starts : k <= i
             IN  Str(ToLowerCase(SubSeq(url, from, RunEnd(url, from, {"/", "?"}, FALSE) - 1)))

\* the helper's extractLinkedInId:
\* /linkedin\.com\/in\/([\w\-%.0-9]+)(?:[/?]|$)/i
helperExtractLinkedInId(url) ==
    LET low == ToLowerCase(url)
        starts == {k + Len(InPath) : k \in {j \in 1..(Len(url) - Len(InPath)) :
                       /\ SubSeq(low, j, j + Len(InPath) - 1) = InPath
                       /\ url[j + Len(InPath)] \in SlugChars
                       /\ LET e == RunEnd(url, j + Len(InPath), SlugChars, TRUE)
                          IN  e = Len(url) + 1 \/ url[e] \in {"/", "?"}}}
    IN  IF starts = {} THEN Null
        ELSE LET from == CHOOSE k \in starts : \A i \in starts : k <= i
             IN  Str(ToLowerCase(SubSeq(url, from, RunEnd(url, from, SlugChars, TRUE) - 1)))

\* linkedinUrl values a profile is saved with
ProfileUrls ==
    {UrlIn,
     <<"h","t","t","p","s",":","/","/">> \o LinkedInCom \o <<"/","i","n","/","A","L","/">>,
     InPath \o <<"b","o","?","x">>,
     PubPath \o <<"a","l">>,
     InPath \o <<"a","l","#","x">>}

\* profileSchema.pre('save')
PreSave(doc) ==
    IF Truthy(doc.linkedinUrl)
    THEN [doc EXCEPT !.linkedinId = extractLinkedInId(doc.linkedinUrl.s)]
    ELSE doc

\* an index that is not unique
NonUniqueIndexAllows(coll, self, linkedinId) == TRUE

\* the sparse unique index on linkedinId: a document that has the field (a
\* null included) is refused when another document has the same value
UniqueIndexAllows(coll, self, linkedinId) ==
    linkedinId.t = "undefined"
    \/ \A j \in (1..Len(coll)) \ {self} : coll[j].linkedinId # linkedinId

\* doc.save() of the document at position `self` (0: a new document)
Save(self, doc) ==
    LET saved == PreSave(doc)
    IN  IF UniqueIndexAllows(profiles, self, saved.linkedinId)
        THEN /\ profiles' = IF self = 0 THEN Append(profiles, saved)
                                        ELSE [profiles EXCEPT ![self] = saved]
             /\ profileOp' = [op |-> "save", result |-> "ok"]
        ELSE /\ UNCHANGED profiles
             /\ profileOp' = [op |-> "save", result |-> "E11000 duplicate key"]

\* a new profile is saved
SaveProfile(url, by) ==
    /\ Save(0, [uploadedBy |-> by, linkedinUrl |-> url, linkedinId |-> Undefined])
    /\ UNCHANGED <<users, dashboards, clock, dashResponse, nAppends, runBase, runMsgs>>
    /\ UNCHANGED <<scrapeVars, auth, inflight, reset>>

\* a stored profile is loaded, its linkedinUrl is set and it is saved again
ResaveProfile(k, url) ==
    /\ Save(k, [profiles[k] EXCEPT !.linkedinUrl = url])
    /\ UNCHANGED <<users, dashboards, clock, dashResponse, nAppends, runBase, runMsgs>>
    /\ UNCHANGED <<scrapeVars, auth, inflight, reset>>

\* checkLinkedInDuplicate(url, Profile), with how Profile.findOne ends
checkLinkedInDuplicate(url, outcome) ==
    IF ~Truthy(url) THEN [returned |-> Null, queried |-> FALSE]
    ELSE IF url.t # "string"
    THEN [raised |-> "TypeError: url.match is not a function", queried |-> FALSE]
    ELSE IF helperExtractLinkedInId(url.s) = Null THEN [returned |-> Null, queried |-> FALSE]
    ELSE IF outcome = "throws" THEN [returned |-> Null, queried |-> TRUE]
    ELSE IF \E k \in 1..Len(profiles) : profiles[k].linkedinId = helperExtractLinkedInId(url.s)
    THEN [returned |-> [exists |-> TRUE,
                        message |-> "A profile with this LinkedIn URL already exists"],
          queried |-> TRUE]
    ELSE [returned |-> Null, queried |-> TRUE]

CheckDuplicate(url, outcome) ==
    /\ profileOp' = [op |-> "check", url |-> url, outcome |-> outcome]
                       @@ checkLinkedInDuplicate(url, outcome)
    /\ UNCHANGED <<scrapeVars, dashVars, auth, inflight, reset>>

(***************************************************************************)
(* authMiddleware and the routes it protects.                              *)
(***************************************************************************)
\* jwt.verify(token, JWT_SECRET): the decoded payload, or the name of the
\* error it throws (a NotBeforeError is not named JsonWebTokenError)
jwtVerify(token) ==
    CASE token = <<"g","1">> -> [id |-> "u1"]
      [] token = <<"g","2">> -> [id |-> "u2"]
      [] token = <<"e","x">> -> [error |-> "TokenExpiredError"]
      [] token = <<"n","b">> -> [error |-> "NotBeforeError"]
      [] OTHER -> [error |-> "JsonWebTokenError"]

\* authHeader.split(" ")[1]
SecondPiece(s) ==
    LET space == RunEnd(s, 1, {" "}, FALSE)
    IN  IF space > Len(s) THEN Undefined
        ELSE Str(SubSeq(s, space + 1, RunEnd(s, space + 1, {" "}, FALSE) - 1))

Unauthorized(message) == [next |-> FALSE, status |-> 401, message |-> message]

\* a middleware that reads the payload of an expired token all the same
authMiddlewareIgnoresExpiry(authHeader) ==
    IF ~Truthy(authHeader) THEN Unauthorized("No authorization header provided")
    ELSE IF ~Truthy(SecondPiece(authHeader.s)) THEN Unauthorized("No token provided")
    ELSE LET decoded == jwtVerify(SecondPiece(authHeader.s).s)
         IN  IF "id" \in DOMAIN decoded
             THEN [next |-> TRUE, status |-> 0, userId |-> decoded.id]
             ELSE IF decoded.error = "TokenExpiredError"
             THEN [next |-> TRUE, status |-> 0, userId |-> "u1"]
             ELSE Unauthorized("Invalid token")

authMiddleware(authHeader) ==
    IF ~Truthy(authHeader) THEN Unauthorized("No authorization header provided")
    ELSE IF ~Truthy(SecondPiece(authHeader.s)) THEN Unauthorized("No token provided")
    ELSE LET decoded == jwtVerify(SecondPiece(authHeader.s).s)
         IN  IF "id" \in DOMAIN decoded
             THEN [next |-> TRUE, status |-> 0, userId |-> decoded.id]
             ELSE IF decoded.error = "TokenExpiredError" THEN Unauthorized("Token expired")
             ELSE IF decoded.error = "JsonWebTokenError" THEN Unauthorized("Invalid token")
             ELSE Unauthorized("Token verification failed")

\* req.headers.authorization of the requests
Headers ==
    {Undefined, Str(<<>>)} \cup
    {Str(h) : h \in {<<"B","e","a","r","e","r">>,
                     <<"g","1">>,
                     <<"B","e","a","r","e","r"," ","g","1">>,
                     <<"B","e","a","r","e","r"," "," ","g","1">>,
                     <<"B","e","a","r","e","r"," ","g","1"," ","x">>,
                     <<"B","a","s","i","c"," ","g","2">>,
                     <<"B","e","a","r","e","r"," ","e","x">>,
                     <<"B","e","a","r","e","r"," ","n","b">>,
                     <<"B","e","a","r","e","r"," ","z","z">>}}

\* a request reaches a protected route: the middleware runs
Authenticate(authHeader) ==
    /\ auth' = [header |-> authHeader] @@ authMiddleware(authHeader)
    /\ UNCHANGED <<scrapeVars, dashVars, profileOp, inflight, reset>>

(***************************************************************************)
(* Dashboard requests that overlap: each step runs up to the next await.   *)
(***************************************************************************)
MaxRequests == 2

RequestIds == 1..MaxRequests

\* a collection with no key on userId
NoDashboardKey(coll, userId) == TRUE

\* the collection is keyed by user id: an insert for a user who has a
\* dashboard is refused
DashboardKeyFree(coll, userId) == FindOne(coll, userId) = 0

\* Dashboard.findOne({ userId }) of GET /, login or the OAuth callback returns
FindDashboard(r, kind, userId) ==
    /\ inflight[r].pc = "idle"
    /\ LET k == FindOne(dashboards, userId)
           at == [kind |-> kind, userId |-> userId,
                  doc |-> IF k = 0 THEN Null ELSE dashboards[k]]
       IN  inflight' = [inflight EXCEPT ![r] =
              IF k = 0 THEN [pc |-> "creating"] @@ at
              ELSE IF kind = "get" THEN [pc |-> "counting"] @@ at
              ELSE [pc |-> "done", status |-> 200] @@ at]
    /\ UNCHANGED <<scrapeVars, dashVars, profileOp, auth, reset>>

\* Dashboard.create({...}) returns or throws
CreateDashboard(r) ==
    LET q == inflight[r]
        welcome == IF q.kind = "get" THEN WelcomeGet
                   ELSE IF q.kind = "login" THEN WelcomeLogin ELSE WelcomeGoogle
        created == NewDashboard(q.userId, welcome, clock)
    IN  /\ q.pc = "creating"
        /\ IF DashboardKeyFree(dashboards, q.userId)
           THEN /\ dashboards' = Append(dashboards, created)
                /\ inflight' = [inflight EXCEPT ![r] =
                      IF q.kind = "get" THEN [q EXCEPT !.pc = "counting", !.doc = created]
                      ELSE [pc |-> "done", status |-> 200] @@ [q EXCEPT !.doc = created]]
           ELSE /\ UNCHANGED dashboards
                /\ inflight' = [inflight EXCEPT ![r] =
                      [pc |-> "done", status |-> IF q.kind = "google" THEN 302 ELSE 500,
                       error |-> "E11000 duplicate key"] @@ q]
        /\ UNCHANGED <<users, profiles, clock, dashResponse, nAppends, runBase, runMsgs>>
        /\ UNCHANGED <<scrapeVars, profileOp, auth, reset>>

\* Profile.countDocuments returns: the counters are compared and corrected on
\* the loaded document
CountProfiles(r) ==
    LET q == inflight[r]
        d == Reconciled(q.doc, CountDocuments(profiles, q.userId))
    IN  /\ q.pc = "counting"
        /\ inflight' = [inflight EXCEPT ![r] =
              IF d = q.doc
              THEN [pc |-> "done", status |-> 200, actualUploads |-> CountDocuments(profiles, q.userId)] @@ q
              ELSE [pc |-> "saving", loaded |-> q.doc, doc |-> d,
                    actualUploads |-> CountDocuments(profiles, q.userId)] @@ q]
        /\ UNCHANGED <<scrapeVars, dashVars, profileOp, auth, reset>>

\* a save that gives up when the stored document is not the one it loaded
SaveWritesGuarded(stored, loaded, doc) == IF stored # loaded THEN stored ELSE doc

\* dashboard.save(): the paths modified since the load are written
SaveWrites(stored, loaded, doc) ==
    [f \in DOMAIN stored |-> IF doc[f] # loaded[f] THEN doc[f] ELSE stored[f]]

SaveDashboard(r) ==
    LET q == inflight[r]
        k == FindOne(dashboards, q.userId)
    IN  /\ q.pc = "saving"
        /\ dashboards' = [dashboards EXCEPT ![k] = SaveWrites(@, q.loaded, q.doc)]
        /\ inflight' = [inflight EXCEPT ![r] =
              [pc |-> "done", status |-> 200, replaced |-> dashboards[k],
               countAtSave |-> CountDocuments(profiles, q.userId)] @@ q]
        /\ UNCHANGED <<users, profiles, clock, dashResponse, nAppends, runBase, runMsgs>>
        /\ UNCHANGED <<scrapeVars, profileOp, auth, reset>>

(***************************************************************************)
(* POST /forgot-password.                                                  *)
(***************************************************************************)
GenericResetMessage == "If an account with that email exists, a reset link has been sent."

\* the email a registered user is stored with (lower-cased and trimmed at
\* signup)
AccountEmail == <<"a","@","x">>

\* a handler that tells the caller when no account has the email
forgotPasswordRevealing(email, store, outcome) ==
    IF ~Truthy(email) THEN [status |-> 400, message |-> "Email is required"]
    ELSE IF email.t # "string" \/ outcome = "throws"
    THEN [status |-> 500, message |-> "Server error"]
    ELSE IF store # {} /\ Trim(ToLowerCase(email.s)) = AccountEmail
    THEN [status |-> 200, message |-> GenericResetMessage, user |-> TRUE]
    ELSE [status |-> 404, message |-> "User not found", user |-> FALSE]

\* the handler on req.body.email, over the stored users `store`, with how
\* User.findOne ends; `user` is whether the lookup found one
forgotPassword(email, store, outcome) ==
    IF ~Truthy(email) THEN [status |-> 400, message |-> "Email is required"]
    ELSE IF email.t # "string" \/ outcome = "throws"
    THEN [status |-> 500, message |-> "Server error"]
    ELSE [status |-> 200, message |-> GenericResetMessage,
          user |-> store # {} /\ Trim(ToLowerCase(email.s)) = AccountEmail]

ForgotPassword(email, outcome) ==
    /\ reset' = [op |-> "forgot", email |-> email, outcome |-> outcome]
                   @@ forgotPassword(email, users, outcome)
    /\ UNCHANGED <<scrapeVars, dashVars, profileOp, auth, inflight>>

InitAux ==
    /\ profileOp = [op |-> "none"]
    /\ auth = [next |-> FALSE, status |-> 0]
    /\ inflight = [r \in RequestIds |-> [pc |-> "idle"]]
    /\ reset = [op |-> "none"]

(***************************************************************************)
(* Specifications.                                                         *)
(***************************************************************************)
\* a ledger a scrape request finds in storage: the user has spent points and
\* unlocked two contacts
StoredLedger ==
    [NewDashboard("u1", WelcomeLogin, 0) EXCEPT !.availablePoints = 40,
                                                !.unlockedProfiles = 2,
                                                !.unlockedContactIds = <<"c1", "c2">>]

InitLedger ==
    /\ users = {"u1"}
    /\ dashboards = <<StoredLedger>>
    /\ profiles = <<>>
    /\ clock = 0
    /\ dashResponse = NoResponse
    /\ nAppends = 0
    /\ runBase = <<>>
    /\ runMsgs = <<>>

\* result sets of one kind of payload, whole or empty
SimpleResults(n) == {<<>>, [k \in 1..n |-> PNameCompany]}

\* the scrape handler, against a service that settles within MaxRunningPolls
\* RUNNING answers and returns any result set
InitScrapeLedger == InitScrape /\ InitLedger /\ InitAux

NextScrape ==
    \/ \E body \in Requests : ReceiveRequest(body)
    \/ \E outcome \in Outcomes : RunResponse(outcome)
    \/ \E outcome \in Outcomes, status \in RunStatuses :
          /\ status = "RUNNING" => attempts < MaxRunningPolls
          /\ PollStatus(outcome, status)
    \/ \E outcome \in Outcomes, data \in SeqsUpTo(Payloads, Len(validProfiles)) :
          ItemsResponse(outcome, data)
    \/ StartItem
    \/ \E outcome \in Outcomes : SaveResponse(outcome)
    \/ Respond

SpecScrape == InitScrapeLedger /\ [][NextScrape]_vars

\* the scrape handler, against a service that may answer RUNNING to every
\* poll and returns a result set of one kind
Init == InitScrape /\ InitDash /\ InitAux

NextPolling ==
    \/ \E body \in Requests : ReceiveRequest(body)
    \/ \E outcome \in Outcomes : RunResponse(outcome)
    \/ \E outcome \in Outcomes, status \in RunStatuses : PollStatus(outcome, status)
    \/ \E outcome \in Outcomes, data \in SimpleResults(Len(validProfiles)) :
          ItemsResponse(outcome, data)
    \/ StartItem
    \/ \E outcome \in Outcomes : SaveResponse(outcome)
    \/ Respond

SpecPolling == Init /\ [][NextPolling]_vars

\* the dashboard routes and what creates dashboards and profiles
NextDashboard ==
    \/ \E u \in UserIds, created \in BOOLEAN : Signup(u, created)
    \/ \E u \in UserIds : Login(u)
    \/ \E u \in UserIds : GoogleCallback(u)
    \/ \E by \in UserIds \cup OtherUsers : Len(profiles) < MaxStored /\ UploadProfile(by)
    \/ clock < MaxClock /\ Tick
    \/ \E u \in UserIds, outcome \in DbOutcomes : GetDashboard(u, outcome)
    \/ \E u \in UserIds, body \in Bodies : UpdateDashboard(u, body)
    \/ \E u \in UserIds, activity \in {"", ActivityNames[nAppends + 1]} :
          nAppends < MaxAppends /\ AddActivity(u, activity)

SpecDashboard == Init /\ [][NextDashboard]_vars

\* runs of activity appends on a dashboard created one way or another
NextActivity ==
    \/ \E u \in UserIds, created \in BOOLEAN : Signup(u, created)
    \/ \E u \in UserIds : Login(u)
    \/ \E u \in UserIds : GoogleCallback(u)
    \/ \E u \in UserIds : GetDashboard(u, "ok")
    \/ \E u \in UserIds, activity \in {"", ActivityNames[nAppends + 1]} :
          nAppends < MaxAppendsLong /\ AddActivity(u, activity)

SpecActivity == Init /\ [][NextActivity]_vars

\* saves of profiles and duplicate checks
NextProfiles ==
    \/ \E url \in {Str(u) : u \in ProfileUrls}, by \in UserIds :
          Len(profiles) < MaxProfileDocs /\ SaveProfile(url, by)
    \/ \E k \in 1..Len(profiles), url \in {Undefined, Str(<<>>)} \cup {Str(u) : u \in ProfileUrls} :
          ResaveProfile(k, url)
    \/ \E url \in {Undefined, Str(<<>>), Num(5)} \cup {Str(u) : u \in ProfileUrls},
          outcome \in {"ok", "throws"} : CheckDuplicate(url, outcome)

SpecProfiles == Init /\ [][NextProfiles]_vars

\* requests to the protected dashboard routes
NextAuth ==
    \/ \E h \in Headers : Authenticate(h)
    \/ \E outcome \in DbOutcomes : auth.next /\ GetDashboard(auth.userId, outcome)
    \/ \E activity \in {"", ActivityNames[nAppends + 1]} :
          auth.next /\ nAppends < MaxAppends /\ AddActivity(auth.userId, activity)

SpecAuth == Init /\ [][NextAuth]_vars

\* overlapping reads, logins and OAuth callbacks of one user, with updates
\* and uploads in between
NextRace ==
    \/ \E r \in RequestIds, kind \in {"get", "login", "google"}, u \in UserIds :
          FindDashboard(r, kind, u)
    \/ \E r \in RequestIds : CreateDashboard(r)
    \/ \E r \in RequestIds : CountProfiles(r)
    \/ \E r \in RequestIds : SaveDashboard(r)
    \/ \E u \in UserIds : UpdateDashboard(u, BodyCounts)
    \/ \E by \in UserIds : Len(profiles) < MaxStored /\ UploadProfile(by)

SpecRace == Init /\ [][NextRace]_vars

\* password-reset requests while accounts are created and used
NextForgot ==
    \/ \E email \in {Undefined, Str(<<>>), Num(5), Str(AccountEmail),
                     Str(<<" ","A","@","x"," ">>), Str(<<"b","@","x">>)},
          outcome \in {"ok", "throws"} : ForgotPassword(email, outcome)
    \/ \E u \in UserIds, created \in BOOLEAN : Signup(u, created)
    \/ \E u \in UserIds : Login(u)
    \/ \E u \in UserIds : GoogleCallback(u)
    \/ \E by \in UserIds \cup OtherUsers : Len(profiles) < MaxStored /\ UploadProfile(by)
    \/ clock < MaxClock /\ Tick

SpecForgot == Init /\ [][NextForgot]_vars

\* the scrape handler on a batch of one URL that the service scrapes, for
\* every titled payload
OneUrlBody == [profilesData |-> Arr(<<DIn>>), userId |-> "u1"]

NextNormalize ==
    \/ ReceiveRequest(OneUrlBody)
    \/ RunResponse("ok")
    \/ PollStatus("ok", "SUCCEEDED")
    \/ \E p \in TitledPayloads : ItemsResponse("ok", <<p>>)
    \/ StartItem
    \/ \E outcome \in Outcomes : SaveResponse(outcome)
    \/ Respond

SpecNormalize == Init /\ [][NextNormalize]_vars

(***************************************************************************)
(* Properties of the scrape handler.                                       *)
(***************************************************************************)
Failing == {"notok", "throws"}

\* the external stage failed: the submission, a status check or the result
\* fetch did not answer ok, or the polling loop ended without SUCCEEDED
\* (another final status, or maxAttempts polls still RUNNING)
StageFailed ==
    \/ ext.run \in Failing
    \/ ext.poll \in Failing
    \/ ext.items \in Failing
    \/ ext.poll = "ok" /\ runStatus # "SUCCEEDED"
                       /\ (runStatus # "RUNNING" \/ attempts >= 60)

Responded == pc = "done"

\* C1: when the external stage fails after validation passed, the handler
\* answers 200 / success: true with one failed entry per valid input, all
\* with the reason 'LinkedIn scraping service failed', successful = 0, and
\* without a single call to the profile-persistence endpoint.
C1_StageFailureMarksAllFailed ==
    (Responded /\ StageFailed) =>
        /\ response.status = 200
        /\ response.success = TRUE
        /\ response.results.successful = 0
        /\ response.results.failed = Len(validProfiles)
        /\ Len(response.results.results) = Len(validProfiles)
        /\ \A k \in 1..Len(validProfiles) :
              response.results.results[k] =
                 [url |-> validProfiles[k].url, status |-> "failed",
                  error |-> "LinkedIn scraping service failed"]
        /\ calls.save = 0

\* the case of 60 polls exhausted on a batch of two
C1_Witness ==
    /\ Responded /\ StageFailed
    /\ attempts = 60 /\ runStatus = "RUNNING"
    /\ Len(validProfiles) = 2

\* C2: a batch that reaches polling issues between 1 and 60 status requests,
\* and the result set is fetched and items are processed only when the last
\* status read is SUCCEEDED.
C2_PollingBoundedAndGated ==
    /\ calls.status <= 60
    /\ (ext.run = "ok" /\ pc \notin {"awaitRun", "polling"}) => calls.status >= 1
    /\ (calls.fetch > 0 \/ calls.save > 0 \/ results.successful > 0
        \/ pc \in {"awaitItems", "process", "awaitSave"}
        \/ Len(saveLog) > 0)
          => runStatus = "SUCCEEDED"
    /\ calls.fetch <= 1

\* SUCCEEDED is read on the 60th poll and the batch goes on to save an item
C2_Witness ==
    /\ Responded
    /\ calls.status = 60 /\ runStatus = "SUCCEEDED"
    /\ calls.fetch = 1
    /\ results.successful > 0

\* a descriptor whose url is a string containing one of the two profile paths
Matches(profile) ==
    /\ profile.url.t = "string"
    /\ (Includes(profile.url.s, InPath) \/ Includes(profile.url.s, PubPath))

MatchingCount(a) == Cardinality({k \in 1..Len(a) : Matches(a[k])})

\* the requests the claim says are rejected
Rejectable(body) ==
    \/ body.profilesData.t # "array"
    \/ body.profilesData.a = <<>>
    \/ body.userId = ""
    \/ MatchingCount(body.profilesData.a) = 0

\* C3: a request with profilesData missing, not a list or empty, with no
\* userId, or with no descriptor whose URL matches, is answered 400 before
\* any outbound request; the URLs submitted are as many as the matching
\* descriptors.
C3_InvalidRequestRejected400 ==
    /\ (Responded /\ Rejectable(req)) => (response.status = 400 /\ calls = NoCalls)
    /\ calls.submit > 0 => Len(submitted) = MatchingCount(req.profilesData.a)

\* The part of C3 the handler does keep: an invalid request never causes an
\* outbound request, and the URLs submitted are the matching descriptors'.
C3_NoOutboundOnInvalidRequest ==
    /\ (pc # "idle" /\ Rejectable(req)) => (calls = NoCalls /\ response.status \in {400, 500})
    /\ calls.submit > 0 => Len(submitted) = MatchingCount(req.profilesData.a)

\* what the entry of item k must be, from the result at position k and the
\* answer of the persistence endpoint for that item
ExpectedEntry(k) ==
    LET url == validProfiles[k].url
        data == IF k <= Len(scrapedData) THEN scrapedData[k] ELSE NoProfileData
    IN  IF data.t = "null" THEN [url |-> url, status |-> "failed", error |-> MsgNoData]
        ELSE IF data.t = "malformed" THEN [url |-> url, status |-> "failed", error |-> MsgTypeError]
        ELSE IF saveLog[k] = "none" THEN [url |-> url, status |-> "failed", error |-> MsgInsufficient]
        ELSE IF saveLog[k] = "notok" THEN [url |-> url, status |-> "failed", error |-> MsgSaveFailed]
        ELSE IF saveLog[k] = "throws" THEN [url |-> url, status |-> "failed", error |-> MsgFetchFailed]
        ELSE LET c == transformLinkedInDataWithPhone(data, req.userId, validProfiles[k])
             IN  [url |-> url, status |-> "success",
                  data |-> [name |-> c.name, jobTitle |-> c.jobTitle,
                            company |-> c.company, phone |-> c.phone]]

\* C4: a failed item is recorded for that item only; the later items are
\* still processed, and the result list ends with one entry per valid input,
\* in input order, each built from the scraped result at the same position.
C4_ItemFailureIsolated ==
    ext.items = "ok" =>
        /\ \A k \in 1..Len(results.results) : results.results[k] = ExpectedEntry(k)
        /\ Len(results.results) <= Len(validProfiles)
        /\ pc \in {"respond", "done"} =>
              /\ Len(results.results) = Len(validProfiles)
              /\ results.processed = Len(validProfiles)

\* the first of two items failed and the second was saved
C4_Witness ==
    /\ Responded /\ ext.items = "ok"
    /\ Len(validProfiles) = 2
    /\ response.results.results[1].status = "failed"
    /\ response.results.results[2].status = "success"

ProcessedProfiles ==
    {k \in 1..Len(saveLog) : k <= Len(scrapedData) /\ scrapedData[k].t = "profile"}

Normalized(k) == transformLinkedInDataWithPhone(scrapedData[k], req.userId, validProfiles[k])

Sufficient(c) ==
    c.name # <<>> /\ (c.experience > 0 \/ c.company # <<>> \/ c.jobTitle # <<>>)

\* C5: a normalized record goes to the persistence endpoint exactly when its
\* name is non-empty and it has experience > 0, a company or a job title;
\* otherwise the item fails with the insufficient-data reason and no
\* persistence call is made for it.
C5_PersistedIffMinimumData ==
    /\ \A k \in ProcessedProfiles :
          /\ (saveLog[k] # "none") <=> Sufficient(Normalized(k))
          /\ saveLog[k] = "none" =>
                results.results[k] =
                   [url |-> validProfiles[k].url, status |-> "failed", error |-> MsgInsufficient]
    /\ calls.save = Cardinality({k \in 1..Len(saveLog) : saveLog[k] # "none"})
                    + (IF pc = "awaitSave" THEN 1 ELSE 0)
    /\ pc = "awaitSave" => Sufficient(contactData)

\* a name-only record was refused and a record with a name and a title saved
C5_Witness ==
    /\ Responded /\ Len(saveLog) = 2
    /\ \E k \in ProcessedProfiles : scrapedData[k] = PNameOnly /\ saveLog[k] = "none"
    /\ \E k \in ProcessedProfiles : scrapedData[k] = PNameTitle /\ saveLog[k] = "ok"
    /\ calls.save = 1

SuccessCount(entries) == Cardinality({k \in 1..Len(entries) : entries[k].status = "success"})

\* C6: the handler reports 10 points per successful item and leaves the
\* user's dashboard record as it found it.
C6_PointsReportedLedgerUntouched ==
    /\ (Responded /\ response.status = 200) =>
          response.pointsEarned = 10 * SuccessCount(response.results.results)
    /\ dashboards = <<StoredLedger>>

\* two items were saved: 20 points reported
C6_Witness ==
    /\ Responded /\ response.status = 200
    /\ response.pointsEarned = 20
    /\ SuccessCount(response.results.results) = 2


(***************************************************************************)
(* Properties of the dashboard routes.                                     *)
(***************************************************************************)
\* the last n entries of s, oldest first
LastN(s, n) == [i \in 1..n |-> s[Len(s) - n + i]]

\* the record stored for a user
StoredFor(coll, userId) == coll[FindOne(coll, userId)]

\* C7: after a run of n appends (PATCH /activity) for one user, recentActivity
\* holds the last min(n + initial length, 20) entries of the initial log
\* followed by the appended messages, in insertion order, oldest first.
C7_AppendKeepsLastTwenty ==
    \A u \in UserIds :
        runMsgs # <<>> =>
            LET all == runBase \o runMsgs
            IN  /\ FindOne(dashboards, u) # 0
                /\ StoredFor(dashboards, u).recentActivity =
                      LastN(all, Min({Len(all), 20}))

\* 25 messages appended in sequence: the stored log is the last 20 of them
C7_Witness ==
    /\ Len(runMsgs) = 25
    /\ FindOne(dashboards, "u1") # 0
    /\ StoredFor(dashboards, "u1").recentActivity = SubSeq(ActivityNames, 6, 25)

\* C8: in every reachable state, after any sequence of dashboard operations
\* (creation at signup, login, OAuth or first GET, update by POST, append by
\* PATCH), every stored recentActivity has at most 20 entries.
C8_RecentActivityAtMostTwenty ==
    \A k \in 1..Len(dashboards) : Len(dashboards[k].recentActivity) <= 20

\* the value a request body holds for a field it has
BodyValue(v) == IF v.t = "array" THEN v.a ELSE v.n

\* C9: a POST on a stored dashboard overwrites exactly the fields present in
\* the body and stamps updatedAt; every ledger field absent from the body
\* (unlockedContactIds, uploadedProfileIds and recentActivity included)
\* keeps its stored value.
C9_UpdateKeepsAbsentFields ==
    [][\A u \in UserIds, body \in Bodies :
          (FindOne(dashboards, u) # 0 /\ UpdateDashboard(u, body)) =>
              /\ StoredFor(dashboards', u).updatedAt = clock
              /\ \A f \in DashboardFields :
                    StoredFor(dashboards', u)[f] =
                       IF body[f].t = "undefined"
                       THEN StoredFor(dashboards, u)[f]
                       ELSE BodyValue(body[f])]_vars

\* C10: after every successful GET /, the returned and the stored record
\* have myUploads = totalContacts = the number of profiles uploaded by the
\* user, and unlockedProfiles = the length of unlockedContactIds.
C10_ReadLeavesCountersReconciled ==
    [][\A u \in UserIds, outcome \in DbOutcomes :
          (GetDashboard(u, outcome) /\ dashResponse'.status = 200) =>
              \A d \in {dashResponse'.dashboard, StoredFor(dashboards', u)} :
                  /\ d.myUploads = CountDocuments(profiles', u)
                  /\ d.totalContacts = CountDocuments(profiles', u)
                  /\ d.unlockedProfiles = Len(d.unlockedContactIds)]_vars


\* C11: when the reconciliation step of a dashboard read fails (the profile
\* count or the save of the corrected counters raises), the read still
\* answers 200 with the dashboard record.
C11_ReconcileFailureStillReturnsRecord ==
    [][\A u \in UserIds, outcome \in {"countThrows", "saveThrows"} :
          GetDashboard(u, outcome) =>
              /\ dashResponse'.status = 200
              /\ dashResponse'.dashboard.userId = u]_vars


(***************************************************************************)
(* Properties of the normalizer.                                           *)
(***************************************************************************)
\* the item being saved has a normalized record
Normalizing == pc = "awaitSave" /\ contactData # NoContact

HigherTitleWords ==
    {<<"c","e","o">>, <<"c","t","o">>, <<"c","f","o">>, <<"c","h","i","e","f">>,
     <<"v","p">>, <<"v","i","c","e"," ","p","r","e","s","i","d","e","n","t">>,
     <<"d","i","r","e","c","t","o","r">>, <<"m","a","n","a","g","e","r">>}

\* C16 as stated: for every payload whose effective job title contains
\* 'Senior', and for every computed experience, the normalized record has
\* seniorityLevel = 'Senior'.
C16_SeniorTitleForcesSenior ==
    (Normalizing /\ Includes(JobTitle(scrapedData[idx]), <<"S","e","n","i","o","r">>))
        => contactData.seniorityLevel = "Senior"

\* C16 as amended: for every payload whose effective job title contains
\* 'Senior' and none of the words of the rules that come first (ceo, cto,
\* cfo, chief, vp, vice president, director, manager, in any letter case),
\* and for every computed experience, seniorityLevel = 'Senior'.
C16_SeniorTitleWithoutHigherWord ==
    (/\ Normalizing
     /\ Includes(JobTitle(scrapedData[idx]), <<"S","e","n","i","o","r">>)
     /\ \A w \in HigherTitleWords : ~Includes(ToLowerCase(JobTitle(scrapedData[idx])), w))
        => contactData.seniorityLevel = "Senior"

\* a 'Junior to Senior' title with no experience is still Senior
C16_Witness ==
    /\ Normalizing
    /\ Includes(JobTitle(scrapedData[idx]), <<"J","u","n","i","o","r">>)
    /\ Includes(JobTitle(scrapedData[idx]), <<"S","e","n","i","o","r">>)
    /\ contactData.experience = 0
    /\ contactData.seniorityLevel = "Senior"


\* the request passed validation: the handler went on to the submission
Submitted == pc \notin {"idle", "done"} \/ (pc = "done" /\ response.status = 200)

\* C17: a batch issues exactly one job-submission request, whose urls are
\* objects with the url of each valid profile and nothing else, so that no
\* phone, email or extraLinks of a descriptor leaves for the third party;
\* the normalized record takes a non-empty user-supplied phone or email in
\* preference to the payload's.
C17_SubmissionCarriesOnlyUrls ==
    /\ calls.submit = IF Submitted THEN 1 ELSE 0
    /\ Submitted =>
          /\ Len(submitted) = Len(validProfiles)
          /\ \A k \in 1..Len(submitted) :
                /\ DOMAIN submitted[k] = {"url"}
                /\ submitted[k].url = validProfiles[k].url
    /\ Normalizing =>
          /\ contactData.phone = IF validProfiles[idx].phone # <<>>
                                 THEN validProfiles[idx].phone
                                 ELSE scrapedData[idx].phone
          /\ contactData.email = IF validProfiles[idx].email # <<>>
                                 THEN validProfiles[idx].email
                                 ELSE scrapedData[idx].email

\* a descriptor with a phone and an email is scraped to a payload that has
\* other ones: the record holds the descriptor's
C17_Witness ==
    /\ Normalizing
    /\ calls.submit = 1
    /\ validProfiles[idx].phone = Phone1 /\ scrapedData[idx].phone = Phone2
    /\ validProfiles[idx].email = Mail1 /\ scrapedData[idx].email = Mail2
    /\ contactData.phone = Phone1 /\ contactData.email = Mail1


\* the response carries the results object
CarriesResults == pc = "done" /\ response.status = 200

\* each listed entry is the entry of the valid input at its position
ListedOnce ==
    /\ Len(results.results) <= Len(validProfiles)
    /\ \A k \in 1..Len(results.results) : results.results[k].url = validProfiles[k].url

\* C20 as stated: after the initialisation of results, at every step,
\* processed = successful + failed and the result list is as long as
\* processed; in every response that carries results, processed, successful
\* + failed and the length of the result list all equal total.
C20_CountersAgreeAtEveryStep ==
    /\ Submitted =>
          /\ results.processed = results.successful + results.failed
          /\ Len(results.results) = results.processed
    /\ CarriesResults =>
          /\ results.processed = results.total
          /\ response.results = results

\* C20 as amended: wherever the handler waits for a request or responds,
\* the result list is as long as successful + failed, and processed equals
\* them too except while the persistence request of an item is outstanding,
\* when processed is exactly one ahead; in every response that carries
\* results all four numbers are equal to the number of valid inputs, and no
\* item is counted or listed twice, also when the external stage fails.
C20_CountersAgreeBetweenItems ==
    /\ Submitted =>
          /\ results.processed =
                results.successful + results.failed + (IF pc = "awaitSave" THEN 1 ELSE 0)
          /\ Len(results.results) = results.successful + results.failed
          /\ results.total = Len(validProfiles)
          /\ ListedOnce
    /\ CarriesResults =>
          /\ response.results = results
          /\ results.processed = results.total
          /\ results.successful + results.failed = results.total
          /\ Len(results.results) = results.total

\* the second item of a batch is being saved after the first was recorded
C20_Witness ==
    /\ pc = "awaitSave"
    /\ results.total = 2 /\ results.processed = 2
    /\ results.successful + results.failed = 1
    /\ Len(results.results) = 1

(***************************************************************************)
(* Properties of the Profile model and the duplicate checker.              *)
(***************************************************************************)
\* C12: whatever profiles are saved and saved again, no two stored profiles
\* have the same non-empty linkedinId.
C12_LinkedinIdsUnique ==
    \A i, j \in 1..Len(profiles) :
        (i # j /\ profiles[i].linkedinId.t = "string")
            => profiles[i].linkedinId # profiles[j].linkedinId

\* two profiles with ids are stored and a save that would have repeated an id
\* was refused
C12_Witness ==
    /\ profileOp = [op |-> "save", result |-> "E11000 duplicate key"]
    /\ Len(profiles) = 2
    /\ \A k \in 1..2 : profiles[k].linkedinId.t = "string"

\* C13: after every save the stored linkedinId is the id extracted from the
\* stored linkedinUrl, and is absent when the URL is absent or has no id; a
\* cleared or changed linkedinUrl never leaves the old linkedinId behind.
C13_LinkedinIdFollowsUrl ==
    \A k \in 1..Len(profiles) :
        LET d == profiles[k]
        IN  IF Truthy(d.linkedinUrl) /\ extractLinkedInId(d.linkedinUrl.s) # Null
            THEN d.linkedinId = extractLinkedInId(d.linkedinUrl.s)
            ELSE d.linkedinId \in {Undefined, Null}

\* C14: checkLinkedInDuplicate never raises; for an empty URL or a URL with no
\* id it returns null without a lookup; when the lookup fails it returns null;
\* it returns { exists: true, message } exactly when the lookup finds a
\* profile with the id.
C14_DuplicateCheckFailsOpen ==
    profileOp.op = "check" =>
        /\ "returned" \in DOMAIN profileOp
        /\ ~Truthy(profileOp.url) => (profileOp.returned = Null /\ ~profileOp.queried)
        /\ (profileOp.url.t = "string" /\ helperExtractLinkedInId(profileOp.url.s) = Null)
              => (profileOp.returned = Null /\ ~profileOp.queried)
        /\ (profileOp.queried /\ profileOp.outcome = "throws") => profileOp.returned = Null
        /\ profileOp.returned # Null <=>
              /\ profileOp.queried
              /\ profileOp.outcome = "ok"
              /\ profileOp.returned = [exists |-> TRUE,
                    message |-> "A profile with this LinkedIn URL already exists"]
              /\ \E k \in 1..Len(profiles) :
                    profiles[k].linkedinId = helperExtractLinkedInId(profileOp.url.s)

\* C21: the duplicate checker's extractLinkedInId and the Profile model's
\* extractLinkedInId return the same result for every URL, so the id a
\* duplicate check looks up for a URL is the id a profile saved with that URL
\* is stored under.
C21_ExtractorsAgree ==
    /\ (profileOp.op = "check" /\ profileOp.url.t = "string") =>
          helperExtractLinkedInId(profileOp.url.s) = extractLinkedInId(profileOp.url.s)
    /\ \A k \in 1..Len(profiles) :
          Truthy(profiles[k].linkedinUrl) =>
              profiles[k].linkedinId = helperExtractLinkedInId(profiles[k].linkedinUrl.s)

(***************************************************************************)
(* Properties of authMiddleware.                                           *)
(***************************************************************************)
\* the token of the request verifies
Verifies(header) ==
    /\ Truthy(header)
    /\ Truthy(SecondPiece(header.s))
    /\ "id" \in DOMAIN jwtVerify(SecondPiece(header.s).s)

\* the token of the request fails verification with this error
FailsWith(header, name) ==
    /\ Truthy(header)
    /\ Truthy(SecondPiece(header.s))
    /\ jwtVerify(SecondPiece(header.s).s) = [error |-> name]

\* C15: authMiddleware passes control to the handler, with req.userId the id
\* claim of the token, only when the Authorization header carries a token
\* that verifies; a missing header, a missing token, an expired token and an
\* invalid token each end in 401 and the handler does not run; an expired
\* token is answered 'Token expired' and an invalid one 'Invalid token'.
C15_OnlyVerifiedTokensPass ==
    /\ []("header" \in DOMAIN auth =>
            /\ auth.next => /\ Verifies(auth.header)
                            /\ auth.userId = jwtVerify(SecondPiece(auth.header.s).s).id
            /\ (~Truthy(auth.header) \/ ~Truthy(SecondPiece(auth.header.s))
                  \/ FailsWith(auth.header, "TokenExpiredError")
                  \/ FailsWith(auth.header, "JsonWebTokenError"))
                  => (~auth.next /\ auth.status = 401)
            /\ FailsWith(auth.header, "TokenExpiredError") => auth.message = "Token expired"
            /\ FailsWith(auth.header, "JsonWebTokenError") => auth.message = "Invalid token")
    /\ [][(dashboards' # dashboards \/ dashResponse' # dashResponse)
             => (auth.next /\ auth' = auth)]_vars

\* a handler answered a request whose token verified, and the next request,
\* with an expired token, was turned away
C15_Witness ==
    /\ "header" \in DOMAIN auth
    /\ FailsWith(auth.header, "TokenExpiredError")
    /\ auth.status = 401 /\ auth.message = "Token expired"
    /\ dashResponse # NoResponse /\ dashResponse.status = 200

(***************************************************************************)
(* Properties of overlapping dashboard requests.                           *)
(***************************************************************************)
\* C18: in every reachable state there is at most one dashboard per user id,
\* also when reads, logins and OAuth callbacks of a user without a dashboard
\* interleave between their find and their create.
C18_OneDashboardPerUser ==
    \A u \in UserIds :
        Cardinality({k \in 1..Len(dashboards) : dashboards[k].userId = u}) <= 1

\* two requests of one user both found no dashboard; one created it and the
\* create of the other was refused
C18_Witness ==
    \E r1, r2 \in 1..MaxRequests :
        /\ inflight[r1].pc = "done" /\ inflight[r2].pc = "done"
        /\ inflight[r1].userId = inflight[r2].userId
        /\ inflight[r1].status = 200 /\ inflight[r1].doc # Null
        /\ "error" \in DOMAIN inflight[r2] /\ inflight[r2].doc = Null
        /\ Cardinality({k \in 1..Len(dashboards) :
                           dashboards[k].userId = inflight[r1].userId}) = 1

\* C19: requests for one user's dashboard can race.  The save of a read's
\* reconciliation has no guard: it stores every counter the read corrected,
\* whatever was written to the record since the read loaded it.
C19_SaveOverwritesWithoutGuard ==
    [][\A r \in 1..MaxRequests :
          (inflight[r].pc = "saving" /\ inflight'[r].pc = "done") =>
              /\ inflight'[r].status = 200
              /\ \A f \in {"myUploads", "unlockedProfiles", "totalContacts"} :
                    inflight[r].doc[f] # inflight[r].loaded[f] =>
                        dashboards'[FindOne(dashboards, inflight[r].userId)][f]
                            = inflight[r].doc[f]]_vars

\* a read counted the profiles; before it saved, a profile was uploaded and
\* another request wrote the record, whose myUploads then was the number of
\* profiles; the read saved its stale count over it, and that is what is stored
C19_Witness ==
    \E r \in 1..MaxRequests :
        /\ inflight[r].pc = "done" /\ "replaced" \in DOMAIN inflight[r]
        /\ inflight[r].replaced # inflight[r].loaded
        /\ inflight[r].replaced.myUploads = inflight[r].countAtSave
        /\ inflight[r].doc.myUploads # inflight[r].countAtSave
        /\ LET stored == dashboards[FindOne(dashboards, inflight[r].userId)]
           IN  /\ stored.myUploads = inflight[r].doc.myUploads
               /\ stored.myUploads # CountDocuments(profiles, inflight[r].userId)

(***************************************************************************)
(* Properties of POST /forgot-password.                                    *)
(***************************************************************************)
\* C22: the forgot-password response does not depend on whether an account
\* exists: for a non-empty email whose user lookup succeeds, the status and
\* the message are the ones the handler returns over any other user store,
\* with or without a user of that email; the handler changes no stored state.
C22_ResetResponseHidesAccounts ==
    /\ []((reset.op = "forgot" /\ Truthy(reset.email) /\ reset.outcome = "ok") =>
            \A store \in SUBSET UserIds :
                /\ forgotPassword(reset.email, store, "ok").status = reset.status
                /\ forgotPassword(reset.email, store, "ok").message = reset.message)
    /\ [][reset' # reset =>
             (users' = users /\ dashboards' = dashboards /\ profiles' = profiles)]_vars

\* a reset was requested for the email of a stored account, written with
\* capitals and spaces, and the lookup found the account
C22_Witness ==
    /\ reset.op = "forgot" /\ reset.outcome = "ok"
    /\ reset.email = Str(<<" ","A","@","x"," ">>)
    /\ reset.status = 200 /\ reset.user
    /\ users # {}

====
